---- MODULE Spec2Model ----
(***************************************************************************)
(* go_scamalytics_py: the Extractor (ipchecker/ipchecker.py) and the       *)
(* Dispatcher (cli/cli.py, Start).                                         *)
(*                                                                         *)
(* Text is a sequence of one-character strings.  Positions named after the *)
(* source's variables (marker_pos, start, i, end) are Python's 0-based     *)
(* indexes; At(text, i) reads text[i].  -1 stands for find's "not found"   *)
(* and for None where the source keeps an index or None.                   *)
(***************************************************************************)
EXTENDS Integers, Sequences, FiniteSets, TLC

\* ------------------------------------------------------------------------
\* Characters and Python's str primitives
\* ------------------------------------------------------------------------
Q == "\""
NL == "\n"

\* Python's \s and JSON's whitespace, over the characters used here.
WsChars == {" ", NL, "\t", "\r"}
\* Characters json's strict string scanner rejects inside a string.
ControlChars == {NL, "\t", "\r"}
Digits == {"0", "1", "2", "3", "4", "5", "6", "7", "8", "9"}

At(text, i) == text[i + 1]

\* text[a:b] for 0 <= a, b.
Slice(text, a, b) == SubSeq(text, a + 1, IF b > Len(text) THEN Len(text) ELSE b)

\* text.startswith(pat, i)
StartsAt(text, pat, i) ==
    /\ i >= 0
    /\ i + Len(pat) <= Len(text)
    /\ \A j \in 1..Len(pat) : text[i + j] = pat[j]

\* The element of a one-element set.  An assignment "x = e" followed by
\* code that computes f(x) is written The({f(x) : x \in {e}}): e is
\* evaluated once and x stands for its value.
The(S) == CHOOSE r \in S : TRUE

\* The least element of a non-empty set of indexes.
Least(S) == CHOOSE p \in S : \A q \in S : p <= q

\* text.find(pat, from): the least index >= from where pat occurs, else -1.
Find(text, pat, from) ==
    LET hits == {p \in from..(Len(text) - Len(pat)) : StartsAt(text, pat, p)}
    IN  IF hits = {} THEN -1 ELSE Least(hits)

\* The index of the first character at or after i that is not in chars
\* (Len(text) when there is none): where a greedy run of chars ends.
SkipChars(text, chars, i) ==
    LET stops == {p \in i..(Len(text) - 1) : At(text, p) \notin chars}
    IN  IF stops = {} THEN (IF i > Len(text) THEN i ELSE Len(text))
        ELSE Least(stops)

\* Where a greedy \s* starting at i ends.
SkipWs(text, i) == SkipChars(text, WsChars, i)

\* The index of the first character at or after i that is in chars, or
\* Len(text).
NextOf(text, chars, i) ==
    LET hits == {p \in i..(Len(text) - 1) : At(text, p) \in chars}
    IN  IF hits = {} THEN Len(text) ELSE Least(hits)

\* ------------------------------------------------------------------------
\* _extract_json_block_from_text
\* ------------------------------------------------------------------------
Marker == <<"I", "P", " ", "F", "r", "a", "u", "d", " ",
            "R", "i", "s", "k", " ", "A", "P", "I">>

\* marker_pos after lines 51-54.
MarkerPos(text) ==
    LET p == Find(text, Marker, 0) IN IF p = -1 THEN 0 ELSE p

\* start, line 57.
BlockStart(text) == Find(text, <<"{">>, MarkerPos(text))

\* One iteration of the while loop, lines 66-74, from the loop state
\* [i, depth, end]; end = -1 is None, and setting end is the break.
ScanIterMissedIncrement(text, st) ==
    LET ch == At(text, st.i) IN
    IF ch = "{" THEN [i |-> st.i + 1, depth |-> st.depth + 1, end |-> -1]
    ELSE IF ch = "}" THEN
        IF st.depth - 1 = 0
        THEN [i |-> st.i, depth |-> st.depth - 1, end |-> st.i + 1]
        ELSE [i |-> st.i + 1, depth |-> st.depth - 1, end |-> -1]
    ELSE [i |-> st.i, depth |-> st.depth, end |-> -1]

ScanIterFirstClose(text, st) ==
    LET ch == At(text, st.i) IN
    IF ch = "{" THEN [i |-> st.i + 1, depth |-> st.depth + 1, end |-> -1]
    ELSE IF ch = "}" THEN [i |-> st.i, depth |-> st.depth - 1, end |-> st.i + 1]
    ELSE [i |-> st.i + 1, depth |-> st.depth, end |-> -1]

ScanIter(text, st) ==
    LET ch == At(text, st.i) IN
    IF ch = "{" THEN [i |-> st.i + 1, depth |-> st.depth + 1, end |-> -1]
    ELSE IF ch = "}" THEN
        IF st.depth - 1 = 0
        THEN [i |-> st.i, depth |-> st.depth - 1, end |-> st.i + 1]
        ELSE [i |-> st.i + 1, depth |-> st.depth - 1, end |-> -1]
    ELSE [i |-> st.i + 1, depth |-> st.depth, end |-> -1]

\* The loop condition of line 65, with the break of line 73.
ScanRunning(text, st) == st.end = -1 /\ st.i < Len(text)

\* The whole loop, lines 62-74: end, or -1 for None.  An iteration over a
\* character that is no brace only adds 1 to i (line 74), so a run of such
\* characters is passed at once.
RECURSIVE ScanLoop(_, _)
ScanLoop(text, st) ==
    IF ~ScanRunning(text, st) THEN st.end
    ELSE IF At(text, st.i) \in {"{", "}"} THEN ScanLoop(text, ScanIter(text, st))
    ELSE ScanLoop(text, [st EXCEPT !.i = NextOf(text, {"{", "}"}, st.i)])

ScanEnd(text, start) == ScanLoop(text, [i |-> start, depth |-> 0, end |-> -1])

\* re.sub(r"<[^>]+>", "", s), line 83: from a '<', one or more characters
\* other than '>' and then a '>'.
RECURSIVE StripTags(_, _)
StripTags(s, i) ==
    LET open == Find(s, <<"<">>, i)
        close == Find(s, <<">">>, open + 1)
    IN  IF open = -1 THEN Slice(s, i, Len(s))
        ELSE IF close > open + 1
        THEN Slice(s, i, open) \o StripTags(s, close + 1)
        ELSE Slice(s, i, open + 1) \o StripTags(s, open + 1)

\* s.replace("...", ""), line 87: leftmost occurrences, one pass.
RECURSIVE RemoveEllipsis(_, _)
RemoveEllipsis(s, i) ==
    LET p == Find(s, <<".", ".", ".">>, i) IN
    IF p = -1 THEN Slice(s, i, Len(s))
    ELSE Slice(s, i, p) \o RemoveEllipsis(s, p + 3)

\* re.sub(r"//.*?$", "", s, flags=re.MULTILINE), line 91: from "//" up to,
\* not including, the next newline or the end of the text.
RECURSIVE StripComments(_, _)
StripComments(s, i) ==
    LET p == Find(s, <<"/", "/">>, i)
        nl == Find(s, <<NL>>, p + 2)
    IN  IF p = -1 THEN Slice(s, i, Len(s))
        ELSE IF nl = -1 THEN Slice(s, i, p)
        ELSE Slice(s, i, p) \o StripComments(s, nl)

\* re.sub(r",\s*X", "X", s) for X = "}" (line 93) and X = "]" (line 94).
RECURSIVE StripTrailingComma(_, _, _)
StripTrailingComma(s, closer, i) ==
    LET p == Find(s, <<",">>, i)
        j == SkipWs(s, p + 1)
    IN  IF p = -1 THEN Slice(s, i, Len(s))
        ELSE IF j < Len(s) /\ At(s, j) = closer
        THEN Slice(s, i, p) \o <<closer>> \o StripTrailingComma(s, closer, j + 1)
        ELSE Slice(s, i, p + 1) \o StripTrailingComma(s, closer, p + 1)

\* Lines 83-94 in order.
Sanitize(candidate) ==
    The({ StripTrailingComma(c4, "]", 0) :
          c4 \in { StripTrailingComma(c3, "}", 0) :
            c3 \in { StripComments(c2, 0) :
              c2 \in { RemoveEllipsis(c1, 0) :
                c1 \in { StripTags(c0, 0) : c0 \in {candidate} } } } } })

\* What the function returns: [found |-> FALSE] for None, else the
\* sanitized candidate.
NoBlock == [found |-> FALSE, block |-> <<>>]

ExtractJsonBlock(text) ==
    LET start == BlockStart(text) IN
    IF start = -1 THEN NoBlock
    ELSE LET end == ScanEnd(text, start) IN
         IF end = -1 THEN NoBlock
         ELSE [found |-> TRUE, block |-> Sanitize(Slice(text, start, end))]

\* ------------------------------------------------------------------------
\* json.loads, over the characters of this model (no backslash escapes)
\* ------------------------------------------------------------------------
\* Python values: a str or dict key is its sequence of characters, a number
\* its literal, a dict a function from keys to values.  None is also what
\* json's null decodes to.
Str(s) == [t |-> "str", v |-> s]
Num(s) == [t |-> "num", v |-> s]
Obj(f) == [t |-> "obj", v |-> f]
Arr(q) == [t |-> "arr", v |-> q]
Const(name) == [t |-> "const", v |-> <<name>>]
None == [t |-> "none", v |-> <<>>]

\* Python's truth value of an object, as "if not parsed" tests it.
Truthy(x) ==
    CASE x.t = "none" -> FALSE
      [] x.t = "str" -> x.v # <<>>
      [] x.t = "obj" -> DOMAIN x.v # {}
      [] x.t = "arr" -> x.v # <<>>
      [] x.t = "num" ->
            \E j \in 1..(NextOf(x.v, {"e", "E"}, 0)) : x.v[j] \in (Digits \ {"0"})
      [] x.t = "const" -> x.v # <<"false">>

\* A decoding step: failed, or the value and the 1-based position after it.
Fail == [ok |-> FALSE, pos |-> 0, val |-> None]
Done(val, pos) == [ok |-> TRUE, pos |-> pos, val |-> val]

HasAt(s, p, c) == p <= Len(s) /\ s[p] = c

\* The position after the whitespace starting at p.
SkipW(s, p) == SkipWs(s, p - 1) + 1

\* The position after the digits starting at p.
SkipDigits(s, p) == SkipChars(s, Digits, p - 1) + 1

\* A string whose opening quote is at p: up to the next quote, with no
\* control character (strict) and no escape.
ParseString(s, p) ==
    LET close == Find(s, <<Q>>, p) + 1 IN
    IF close = 0 THEN Fail
    ELSE IF \E j \in (p + 1)..(close - 1) : s[j] \in ControlChars \cup {"\\"}
    THEN Fail
    ELSE Done(Str(SubSeq(s, p + 1, close - 1)), close + 1)

\* NUMBER_RE: (-?(?:0|[1-9]\d*))(\.\d+)?([eE][-+]?\d+)?
\* The position after the integer part starting at p (after the sign), or 0.
IntEnd(s, p) ==
    IF HasAt(s, p, "0") THEN p + 1
    ELSE IF p <= Len(s) /\ s[p] \in Digits THEN SkipDigits(s, p)
    ELSE 0

\* The position after the optional group a at p, whose digits start at d.
OptDigits(s, p, d) == IF SkipDigits(s, d) > d THEN SkipDigits(s, d) ELSE p

\* The position after an optional fraction at p.
FracEnd(s, p) == IF HasAt(s, p, ".") THEN OptDigits(s, p, p + 1) ELSE p

\* The position after an optional exponent at p.
ExpEnd(s, p) ==
    IF p <= Len(s) /\ s[p] \in {"e", "E"}
    THEN OptDigits(s, p, IF p + 1 <= Len(s) /\ s[p + 1] \in {"-", "+"}
                         THEN p + 2 ELSE p + 1)
    ELSE p

NumberFrom(s, p, int) ==
    IF int = 0 THEN Fail
    ELSE Done(Num(SubSeq(s, p, ExpEnd(s, FracEnd(s, int)) - 1)),
              ExpEnd(s, FracEnd(s, int)))

ParseNumber(s, p) ==
    NumberFrom(s, p, IntEnd(s, IF HasAt(s, p, "-") THEN p + 1 ELSE p))

Keyword(s, p, word, val) ==
    IF StartsAt(s, word, p - 1) THEN Done(val, p + Len(word)) ELSE Fail

RECURSIVE ParseValue(_, _), ParseMembers(_, _, _), ParseElements(_, _, _)
RECURSIVE AfterKey(_, _, _), AfterValue(_, _, _, _), AfterMember(_, _, _)
RECURSIVE AfterElement(_, _, _)

\* scanner._scan_once
ParseValue(s, p) ==
    IF p > Len(s) THEN Fail
    ELSE CASE s[p] = Q -> ParseString(s, p)
           [] s[p] = "{" ->
                IF HasAt(s, SkipW(s, p + 1), "}")
                THEN Done(Obj(<<>>), SkipW(s, p + 1) + 1)
                ELSE ParseMembers(s, SkipW(s, p + 1), <<>>)
           [] s[p] = "[" ->
                IF HasAt(s, SkipW(s, p + 1), "]")
                THEN Done(Arr(<<>>), SkipW(s, p + 1) + 1)
                ELSE ParseElements(s, SkipW(s, p + 1), <<>>)
           [] s[p] = "n" -> Keyword(s, p, <<"n", "u", "l", "l">>, None)
           [] s[p] = "t" -> Keyword(s, p, <<"t", "r", "u", "e">>, Const("true"))
           [] s[p] = "f" ->
                Keyword(s, p, <<"f", "a", "l", "s", "e">>, Const("false"))
           [] s[p] = "N" -> Keyword(s, p, <<"N", "a", "N">>, Const("NaN"))
           [] s[p] = "I" ->
                Keyword(s, p, <<"I", "n", "f", "i", "n", "i", "t", "y">>,
                        Const("Infinity"))
           [] s[p] = "-" /\ StartsAt(s, <<"I", "n", "f">>, p) ->
                Keyword(s, p, <<"-", "I", "n", "f", "i", "n", "i", "t", "y">>,
                        Const("-Infinity"))
           [] OTHER -> ParseNumber(s, p)

\* JSONObject from a key's opening quote, expected at p; acc holds the
\* members so far, a later duplicate key replacing the earlier one.
ParseMembers(s, p, acc) ==
    IF ~HasAt(s, p, Q) THEN Fail
    ELSE The({ AfterKey(s, acc, k) : k \in {ParseString(s, p)} })

\* After the key k: the ':' and the value.
AfterKey(s, acc, k) ==
    IF ~k.ok \/ ~HasAt(s, SkipW(s, k.pos), ":") THEN Fail
    ELSE The({ AfterValue(s, acc, k.val.v, v) :
                 v \in {ParseValue(s, SkipW(s, SkipW(s, k.pos) + 1))} })

\* After the value v of the member named key.
AfterValue(s, acc, key, v) ==
    IF ~v.ok THEN Fail
    ELSE AfterMember(s, (key :> v.val) @@ acc, SkipW(s, v.pos))

\* After a member, at p: the end of the object, or ',' and another member.
AfterMember(s, acc, p) ==
    IF HasAt(s, p, "}") THEN Done(Obj(acc), p + 1)
    ELSE IF HasAt(s, p, ",") THEN ParseMembers(s, SkipW(s, p + 1), acc)
    ELSE Fail

\* JSONArray from the first character of an element at p.
ParseElements(s, p, acc) ==
    The({ AfterElement(s, acc, v) : v \in {ParseValue(s, p)} })

\* After the element v: the end of the array, or ',' and another element.
AfterElement(s, acc, v) ==
    IF ~v.ok THEN Fail
    ELSE IF HasAt(s, SkipW(s, v.pos), "]")
    THEN Done(Arr(Append(acc, v.val)), SkipW(s, v.pos) + 1)
    ELSE IF HasAt(s, SkipW(s, v.pos), ",")
    THEN ParseElements(s, SkipW(s, SkipW(s, v.pos) + 1), Append(acc, v.val))
    ELSE Fail

\* json.loads(s): a value between optional whitespace and nothing else
\* ("Extra data" otherwise); ok = FALSE is the JSONDecodeError.
JsonLoads(s) ==
    The({ IF r.ok /\ SkipW(s, r.pos) = Len(s) + 1 THEN r ELSE Fail :
            r \in {ParseValue(s, SkipW(s, 1))} })

\* s.replace("'", "\""), line 104.
SingleToDouble(s) == [j \in 1..Len(s) |-> IF s[j] = "'" THEN Q ELSE s[j]]

\* ------------------------------------------------------------------------
\* _safe_json_loads
\* ------------------------------------------------------------------------
\* What a call does: it returns a value or it raises.
Return(x) == [kind |-> "return", value |-> x]
Raise(what) == [kind |-> "raise", value |-> Str(<<what>>)]

\* The second attempt, lines 103-107.
RetryLoads(s) ==
    The({ IF r2.ok THEN Return(r2.val) ELSE Return(None) :
            r2 \in {JsonLoads(s2) : s2 \in {SingleToDouble(s)}} })

SafeJsonLoads(s) ==
    The({ IF r1.ok THEN Return(r1.val) ELSE RetryLoads(s) :
            r1 \in {JsonLoads(s)} })

\* ------------------------------------------------------------------------
\* CheckIP
\* ------------------------------------------------------------------------
\* A Python dict with str keys written in the source is a function from
\* those keys; Put is d[k] = v.
Put(d, k, v) == (k :> v) @@ d

\* The keys CheckIP reads from the parsed object, as the characters they
\* are looked up by.
KeyIp == <<"i", "p">>
KeyScore == <<"s", "c", "o", "r", "e">>
KeyRisk == <<"r", "i", "s", "k">>

\* Line 150.
AllowList ==
    << [name |-> "is_blacklisted_external",
        key |-> <<"i", "s", "_", "b", "l", "a", "c", "k", "l", "i", "s", "t", "e", "d", "_", "e", "x", "t", "e", "r", "n", "a", "l">>],
       [name |-> "operator", key |-> <<"o", "p", "e", "r", "a", "t", "o", "r">>],
       [name |-> "hostname", key |-> <<"h", "o", "s", "t", "n", "a", "m", "e">>],
       [name |-> "asn", key |-> <<"a", "s", "n">>] >>

\* re.search(r'"<key>"\s*:\s*"([^"]+)"', text) from index i on, lines
\* 124-126: group(1) of the leftmost match, or no match.
NoMatch == [matched |-> FALSE, group |-> <<>>]

RECURSIVE SearchField(_, _, _)

\* The attempt at index p, where the quoted key stands; when it fails the
\* search goes on from p + 1.
MatchAt(text, key, p) ==
    LET colon == SkipWs(text, p + Len(key) + 2)
        open == SkipWs(text, colon + 1)
        close == Find(text, <<Q>>, open + 1)
    IN  IF /\ colon < Len(text) /\ At(text, colon) = ":"
           /\ open < Len(text) /\ At(text, open) = Q
           /\ close > open + 1
        THEN [matched |-> TRUE, group |-> Slice(text, open + 1, close)]
        ELSE SearchField(text, key, p + 1)

SearchField(text, key, i) ==
    The({ IF p = -1 THEN NoMatch ELSE MatchAt(text, key, p) :
            p \in {Find(text, <<Q>> \o key \o <<Q>>, i)} })

\* The scrape without lines 129-130: the matched ip is never taken.
FallbackScrapeKeepsQueriedIp(ip, text) ==
    LET m_ip == SearchField(text, KeyIp, 0)
        m_score == SearchField(text, KeyScore, 0)
        m_risk == SearchField(text, KeyRisk, 0)
        r0 == [ip |-> Str(ip)]
        r2 == IF m_score.matched THEN Put(r0, "score", Str(m_score.group)) ELSE r0
        r3 == IF m_risk.matched THEN Put(r2, "risk", Str(m_risk.group)) ELSE r2
    IN  IF m_ip.matched \/ m_score.matched \/ m_risk.matched
        THEN r3
        ELSE [ip |-> Str(ip), error |-> Str(<<"no_json_block_found">>)]

\* Lines 123-136: no block was extracted.
FallbackScrape(ip, text) ==
    LET m_ip == SearchField(text, KeyIp, 0)
        m_score == SearchField(text, KeyScore, 0)
        m_risk == SearchField(text, KeyRisk, 0)
        r0 == [ip |-> Str(ip)]
        r1 == IF m_ip.matched THEN Put(r0, "ip", Str(m_ip.group)) ELSE r0
        r2 == IF m_score.matched THEN Put(r1, "score", Str(m_score.group)) ELSE r1
        r3 == IF m_risk.matched THEN Put(r2, "risk", Str(m_risk.group)) ELSE r2
    IN  IF m_ip.matched \/ m_score.matched \/ m_risk.matched
        THEN r3
        ELSE [ip |-> Str(ip), error |-> Str(<<"no_json_block_found">>)]

\* json_block[:200], line 141.
SnippetLen == 200

ParseFailedUntruncated(ip, json_block) ==
    [ip |-> Str(ip), error |-> Str(<<"json_parse_failed">>), raw |-> Str(json_block)]

ParseFailed(ip, json_block) ==
    [ip |-> Str(ip), error |-> Str(<<"json_parse_failed">>),
     raw |-> Str(Slice(json_block, 0, SnippetLen))]

\* Lines 144-158: parsed is a dict.
Promote(ip, parsed) ==
    LET d == parsed.v
        extra == {j \in 1..Len(AllowList) : AllowList[j].key \in DOMAIN d}
        o0 == [ip |-> IF KeyIp \in DOMAIN d THEN d[KeyIp] ELSE Str(ip)]
        o1 == IF KeyScore \in DOMAIN d THEN Put(o0, "score", d[KeyScore]) ELSE o0
        o2 == IF KeyRisk \in DOMAIN d THEN Put(o1, "risk", d[KeyRisk]) ELSE o1
        o3 == [n \in {AllowList[j].name : j \in extra} |->
                  d[AllowList[CHOOSE j \in extra : AllowList[j].name = n].key]] @@ o2
    IN  Put(o3, "_raw_parsed", parsed)

\* "if not json_block", line 122: None or the empty string.
BlockMissing(jb) == ~jb.found \/ jb.block = <<>>

\* "if not parsed", line 139.
ParsedFalsy(parsed) == ~Truthy(parsed)

\* Lines 139-158, given the block and what _safe_json_loads did; parsed.get
\* raises on anything but a dict.
AfterParse(ip, json_block, call) ==
    IF call.kind = "raise" THEN call
    ELSE IF ParsedFalsy(call.value) THEN Return(ParseFailed(ip, json_block))
    ELSE IF call.value.t # "obj" THEN Raise("AttributeError")
    ELSE Return(Promote(ip, call.value))

\* Lines 138-158.
AfterBlock(ip, json_block) ==
    AfterParse(ip, json_block, SafeJsonLoads(json_block))

\* Lines 121-158: CheckIP from the page text on.
CheckIPText(ip, text) ==
    LET jb == ExtractJsonBlock(text) IN
    IF BlockMissing(jb) THEN Return(FallbackScrape(ip, text))
    ELSE AfterBlock(ip, jb.block)

\* Line 119: the result for a requests.RequestException whose str() is detail.
HttpError(ip, detail) ==
    [ip |-> Str(ip), error |-> Str(<<"http_error: ">> \o detail)]

\* ------------------------------------------------------------------------
\* Inputs
\* ------------------------------------------------------------------------
\* Page texts are built from fragments of the upstream page.
Frags ==
    << Marker,
       <<"{">>,
       <<"}">>,
       <<Q, "i", "p", Q, ":", Q, "5", ".", "6", Q>>,
       <<Q, "r", "i", "s", "k", Q, ":", " ", Q, "h", "i", Q, ",">>,
       <<"'", "s", "c", "o", "r", "e", "'", ":", "'", "7", "'">>,
       <<Q, "i", "p", Q, ":", Q, Q>>,
       <<Q, "a", "s", "n", Q, ":", "{", Q, "a", Q, ":", "1", "}">>,
       <<".", ".", ".">>,
       <<"<", "b", ">">>,
       <<"/", "/", "c", NL>> >>

\* The number of fragments in a page text.
MaxFrags == 3

RECURSIVE FragTexts(_)
FragTexts(n) ==
    IF n = 0 THEN {<<>>}
    ELSE LET shorter == FragTexts(n - 1) IN
         shorter \cup {t \o Frags[j] : t \in shorter, j \in 1..Len(Frags)}

\* Pages "anchor phrase, then a JSON object with string fields ip, score
\* and risk": the values, and the object as json.dumps writes it.
FieldValues ==
    { <<"1", ".", "2">>, <<"7">>, <<>>, <<"l", "o", ".", ".", ".">> }

Member(key, value) == <<Q>> \o key \o <<Q, ":">> \o <<Q>> \o value \o <<Q>>

ObjectText(ipv, scorev, riskv) ==
    <<"{">> \o Member(KeyIp, ipv) \o <<",">> \o Member(KeyScore, scorev)
            \o <<",">> \o Member(KeyRisk, riskv) \o <<"}">>

RoundTripPages ==
    { Marker \o sep \o ObjectText(a, b, c) :
        sep \in {<<>>, <<":", NL>>}, a \in FieldValues, b \in FieldValues,
        c \in FieldValues }

\* Pages whose candidate block is longer than the snippet kept of it.
Pad == [j \in 1..SnippetLen |-> " "]

LongPages ==
    { <<"{">> \o Pad \o body \o <<"}">> :
        body \in { <<>>, <<"x">>, Frags[4], Frags[4] \o <<"x">>,
                   Frags[4] \o <<",">> \o Frags[5] } }

PageTexts == FragTexts(MaxFrags) \cup RoundTripPages \cup LongPages

\* The addresses queried.
QueriedIps == { <<"9", ".", "9">>, <<"5", ".", "6">> }

\* ------------------------------------------------------------------------
\* State
\* ------------------------------------------------------------------------
VARIABLES
    \* CheckIP on one page, statement by statement
    text,        \* the page text _fetch_page returned
    qip,         \* CheckIP's ip argument
    xpc,         \* where CheckIP is
    marker_pos,  \* _extract_json_block_from_text's locals
    start,
    scan,        \* [i, depth, end] of the scan loop
    json_block,  \* what _extract_json_block_from_text returned
    parsed,      \* what _safe_json_loads did
    out,         \* what CheckIP did
    \* Start's batch
    ips,         \* the lines of the input file
    threads,     \* args.threads
    pc,          \* where Start's main thread is
    submitted,   \* how many of ips have been submitted
    queue,       \* the executor's work queue
    running,     \* for each worker thread, the task it runs, or 0
    phase,       \* for each task, where its process_ip call is
    body,        \* for each task, the page text its fetch returned
    fate,        \* for each task, how its fetch ended
    future,      \* for each task, what its future holds
    pending,     \* the futures as_completed has yet to yield
    results,     \* the results list
    order        \* the futures as_completed has yielded, in order

xvars == <<text, qip, xpc, marker_pos, start, scan, json_block, parsed, out>>
dvars == <<ips, threads, pc, submitted, queue, running, phase, body, fate,
           future, pending, results, order>>
vars == <<xvars, dvars>>

NoCall == [kind |-> "none", value |-> None]
ScanIdle == [i |-> 0, depth |-> 0, end |-> -1]

\* The batch before Start runs, and CheckIP before it is called.
DispatcherOff ==
    /\ ips = <<>> /\ threads = 0 /\ pc = "off" /\ submitted = 0
    /\ queue = <<>> /\ running = <<>> /\ phase = <<>> /\ body = <<>>
    /\ fate = <<>> /\ future = <<>> /\ pending = {} /\ results = <<>>
    /\ order = <<>>

ExtractorOff ==
    /\ text = <<>> /\ qip = <<>> /\ xpc = "off" /\ marker_pos = 0
    /\ start = -1 /\ scan = ScanIdle /\ json_block = NoBlock
    /\ parsed = NoCall /\ out = NoCall

\* ------------------------------------------------------------------------
\* CheckIP on one page (lines 121-158), statement by statement
\* ------------------------------------------------------------------------
InitOn(pages) ==
    /\ text \in pages
    /\ qip \in QueriedIps
    /\ xpc = "locate"
    /\ marker_pos = 0 /\ start = -1 /\ scan = ScanIdle
    /\ json_block = NoBlock /\ parsed = NoCall /\ out = NoCall
    /\ DispatcherOff

InitX == InitOn(PageTexts)

\* Lines 51-63.
Locate ==
    /\ xpc = "locate"
    /\ marker_pos' = MarkerPos(text)
    /\ start' = BlockStart(text)
    /\ IF start' = -1
       THEN /\ xpc' = "extracted"
            /\ scan' = scan
       ELSE /\ xpc' = "scan"
            /\ scan' = [i |-> start', depth |-> 0, end |-> -1]
    /\ UNCHANGED <<text, qip, json_block, parsed, out, dvars>>

\* One iteration of the loop of lines 65-74.
ScanStep ==
    /\ xpc = "scan"
    /\ ScanRunning(text, scan)
    /\ scan' = ScanIter(text, scan)
    /\ UNCHANGED <<text, qip, xpc, marker_pos, start, json_block, parsed, out, dvars>>

\* Lines 76-96, once the loop has ended.
ScanExit ==
    /\ xpc = "scan"
    /\ ~ScanRunning(text, scan)
    /\ json_block' = IF scan.end = -1 THEN NoBlock
                     ELSE [found |-> TRUE,
                           block |-> Sanitize(Slice(text, start, scan.end))]
    /\ xpc' = "extracted"
    /\ UNCHANGED <<text, qip, marker_pos, start, scan, parsed, out, dvars>>

\* Lines 122-136.
Fallback ==
    /\ xpc = "extracted"
    /\ BlockMissing(json_block)
    /\ out' = Return(FallbackScrape(qip, text))
    /\ xpc' = "done"
    /\ UNCHANGED <<text, qip, marker_pos, start, scan, json_block, parsed, dvars>>

\* Line 138.
Parse ==
    /\ xpc = "extracted"
    /\ ~BlockMissing(json_block)
    /\ parsed' = SafeJsonLoads(json_block.block)
    /\ xpc' = "parsed"
    /\ UNCHANGED <<text, qip, marker_pos, start, scan, json_block, out, dvars>>

\* Lines 139-158.
Finish ==
    /\ xpc = "parsed"
    /\ out' = AfterParse(qip, json_block.block, parsed)
    /\ xpc' = "done"
    /\ UNCHANGED <<text, qip, marker_pos, start, scan, json_block, parsed, dvars>>

NextX == Locate \/ ScanStep \/ ScanExit \/ Fallback \/ Parse \/ Finish

SpecX == InitX /\ [][NextX]_vars

\* CheckIP's body is straight-line code in one thread: it keeps running.
\* The number of fragments in a page text of the runs checked for that.
MaxLiveFrags == 2

LivePageTexts == FragTexts(MaxLiveFrags)

InitLive == InitOn(LivePageTexts)

SpecLive == InitLive /\ [][NextX]_vars /\ WF_vars(NextX)

\* ------------------------------------------------------------------------
\* Start's batch (cli.py, lines 45-55)
\* ------------------------------------------------------------------------
\* The addresses in the input file, and how many lines it has at most.
InputIps == { <<"9", ".", "9">>, <<"5", ".", "6">> }
MaxIps == 3

\* The input files: every list of at most n addresses, duplicates
\* included.  Start treats all addresses alike, so the first line is fixed.
RECURSIVE IpLists(_)
IpLists(n) ==
    IF n = 0 THEN {<<>>}
    ELSE LET shorter == IpLists(n - 1) IN
         shorter \cup {Append(l, a) : l \in shorter, a \in InputIps}

InputFiles == {l \in IpLists(MaxIps) : l = <<>> \/ l[1] = <<"9", ".", "9">>}

\* The values of --threads.
ThreadCounts == {1, 2}

\* The pages the upstream service answers with: one with a record, one
\* whose block gives no record.
Pages ==
    { <<"{">> \o Frags[4] \o <<"}">>,
      <<"{", "}">> }

\* str(e) of the exceptions a fetch ends with.
ErrorDetails == { <<"timeout">> }

Tasks == 1..Len(ips)
Workers == 1..threads

Init ==
    /\ ips \in InputFiles
    /\ threads \in ThreadCounts
    /\ pc = "submit"
    /\ submitted = 0
    /\ queue = <<>>
    /\ running = [w \in 1..threads |-> 0]
    /\ phase = [t \in 1..Len(ips) |-> "new"]
    /\ body = [t \in 1..Len(ips) |-> <<>>]
    /\ fate = [t \in 1..Len(ips) |-> "none"]
    /\ future = [t \in 1..Len(ips) |-> NoCall]
    /\ pending = {}
    /\ results = <<>>
    /\ order = <<>>
    /\ ExtractorOff

\* ex.submit(process_ip, ip, user_agents) for the next ip, line 48.
Submit ==
    /\ pc = "submit"
    /\ submitted < Len(ips)
    /\ submitted' = submitted + 1
    /\ queue' = Append(queue, submitted + 1)
    /\ phase' = [phase EXCEPT ![submitted + 1] = "queued"]
    /\ UNCHANGED <<ips, threads, pc, running, body, fate, future, pending,
                   results, order, xvars>>

\* The keys of the futures dict of line 48: one Future per submit call.
FuturesKeyedByIp(list) ==
    {t \in 1..Len(list) : \A u \in 1..(t - 1) : list[u] # list[t]}

Futures(list) == 1..Len(list)

\* as_completed(futures), line 49, once the dict is built.
StartCollect ==
    /\ pc = "submit"
    /\ submitted = Len(ips)
    /\ pc' = "collect"
    /\ pending' = Futures(ips)
    /\ UNCHANGED <<ips, threads, submitted, queue, running, phase, body, fate,
                   future, results, order, xvars>>

\* Whether worker thread w of ThreadPoolExecutor(max_workers=threads), line
\* 47, is free to take a work item.
CanTakeWhileBusy(w) == TRUE

CanTake(w) == running[w] = 0

\* A worker thread takes the oldest work item and calls process_ip, which
\* calls CheckIP up to its network call (line 117).
WorkerTake(w) ==
    /\ CanTake(w)
    /\ queue # <<>>
    /\ running' = [running EXCEPT ![w] = Head(queue)]
    /\ queue' = Tail(queue)
    /\ phase' = [phase EXCEPT ![Head(queue)] = "net"]
    /\ UNCHANGED <<ips, threads, pc, submitted, body, fate, future, pending,
                   results, order, xvars>>

\* _fetch_page returns the page text, line 117.
FetchOk(w, page) ==
    /\ running[w] # 0
    /\ phase[running[w]] = "net"
    /\ phase' = [phase EXCEPT ![running[w]] = "extract"]
    /\ body' = [body EXCEPT ![running[w]] = page]
    /\ fate' = [fate EXCEPT ![running[w]] = "fetched"]
    /\ UNCHANGED <<ips, threads, pc, submitted, queue, running, future,
                   pending, results, order, xvars>>

\* _fetch_page raises a requests.RequestException, lines 118-119; the
\* task is over and the worker thread free.
FetchHttpError(w, detail) ==
    /\ running[w] # 0
    /\ phase[running[w]] = "net"
    /\ phase' = [phase EXCEPT ![running[w]] = "done"]
    /\ fate' = [fate EXCEPT ![running[w]] = "http_error"]
    /\ future' = [future EXCEPT ![running[w]] =
                      Return(HttpError(ips[running[w]], detail))]
    /\ running' = [running EXCEPT ![w] = 0]
    /\ UNCHANGED <<ips, threads, pc, submitted, queue, body, pending,
                   results, order, xvars>>

\* The fetch raises an exception that is no RequestException: it leaves
\* CheckIP and process_ip, and the future holds it.
FetchRaise(w, detail) ==
    /\ running[w] # 0
    /\ phase[running[w]] = "net"
    /\ phase' = [phase EXCEPT ![running[w]] = "done"]
    /\ fate' = [fate EXCEPT ![running[w]] = "unexpected"]
    /\ future' = [future EXCEPT ![running[w]] =
                      [kind |-> "raise", value |-> Str(detail)]]
    /\ running' = [running EXCEPT ![w] = 0]
    /\ UNCHANGED <<ips, threads, pc, submitted, queue, body, pending,
                   results, order, xvars>>

\* The rest of CheckIP on the page, lines 121-158.
Extract(w) ==
    /\ running[w] # 0
    /\ phase[running[w]] = "extract"
    /\ phase' = [phase EXCEPT ![running[w]] = "done"]
    /\ future' = [future EXCEPT ![running[w]] =
                      CheckIPText(ips[running[w]], body[running[w]])]
    /\ running' = [running EXCEPT ![w] = 0]
    /\ UNCHANGED <<ips, threads, pc, submitted, queue, body, fate, pending,
                   results, order, xvars>>

\* Lines 50-54 for a completed future whose task was given ip: where the
\* loop goes on, and the result it appends if it does.
LoopBodyNoExcept(ip, call) ==
    IF call.kind = "return"
    THEN [pc |-> "collect", res |-> <<call.value>>]
    ELSE [pc |-> "crashed", res |-> <<>>]

LoopBody(ip, call) ==
    IF call.kind = "return"
    THEN [pc |-> "collect", res |-> <<call.value>>]
    ELSE [pc |-> "collect",
          res |-> << [ip |-> Str(ip),
                      error |-> Str(<<"exception: ">> \o call.value.v)] >>]

\* as_completed yields a completed future and the loop body runs, lines
\* 49-55.
Collect(t) ==
    /\ pc = "collect"
    /\ t \in pending
    /\ phase[t] = "done"
    /\ LET step == LoopBody(ips[t], future[t]) IN
        /\ pc' = step.pc
        /\ results' = results \o step.res
    /\ pending' = pending \ {t}
    /\ order' = Append(order, t)
    /\ UNCHANGED <<ips, threads, submitted, queue, running, phase, body, fate,
                   future, xvars>>

\* as_completed is exhausted and the with block is left, line 55.
BatchDone ==
    /\ pc = "collect"
    /\ pending = {}
    /\ pc' = "done"
    /\ UNCHANGED <<ips, threads, submitted, queue, running, phase, body, fate,
                   future, pending, results, order, xvars>>

Next ==
    \/ Submit
    \/ StartCollect
    \/ \E w \in Workers : WorkerTake(w)
    \/ \E w \in Workers, page \in Pages : FetchOk(w, page)
    \/ \E w \in Workers, detail \in ErrorDetails : FetchHttpError(w, detail)
    \/ \E w \in Workers, detail \in ErrorDetails : FetchRaise(w, detail)
    \/ \E w \in Workers : Extract(w)
    \/ \E t \in Tasks : Collect(t)
    \/ BatchDone

Spec == Init /\ [][Next]_vars

\* ------------------------------------------------------------------------
\* Properties
\* ------------------------------------------------------------------------
HasPrefix(s, pre) == Len(s) >= Len(pre) /\ SubSeq(s, 1, Len(pre)) = pre

\* Where as_completed yielded task t's future.
Yielded(t) == {j \in 1..Len(order) : order[j] = t}

\* The result that stands at index j of the results list carries an error
\* that starts with kind.
ErrorAt(j, kind) ==
    /\ j <= Len(results)
    /\ DOMAIN results[j] = {"ip", "error"}
    /\ results[j].error.t = "str"
    /\ HasPrefix(results[j].error.v, <<kind>>)

\* C1: when the batch of Start has finished, the results list holds one
\* result per submitted task: as many results as input IPs, duplicates
\* included, and each task's future was collected exactly once.
ResultCountEqualsInputCount ==
    /\ Len(results) = Len(order)
    /\ pc = "done" =>
        /\ Len(results) = Len(ips)
        /\ \A t \in Tasks : Cardinality(Yielded(t)) = 1

\* A finished batch of three with a duplicate address, in which one task
\* met a network failure, one an unexpected exception and one returned.
BatchOfMixedOutcomesDone ==
    /\ pc = "done"
    /\ Len(ips) >= 3
    /\ \E t \in Tasks, u \in Tasks :
        /\ t # u /\ ips[t] = ips[u]
        /\ fate[t] = "http_error" /\ fate[u] = "unexpected"
    /\ \E v \in Tasks : fate[v] = "fetched"

\* C2: a task that fails (network failure inside CheckIP, or an exception
\* out of the task) never stops the batch: the main thread never leaves the
\* loop on an exception, and in a finished batch every task has exactly one
\* result, the failed ones a result with their own input ip and an
\* 'http_error: ...' or 'exception: ...' error, the others what their
\* CheckIP call returned.
FailureIsContained ==
    /\ pc # "crashed"
    /\ pc = "done" =>
        \A t \in Tasks :
            /\ Cardinality(Yielded(t)) = 1
            /\ \A j \in Yielded(t) :
                /\ j <= Len(results)
                /\ fate[t] = "http_error" =>
                    ErrorAt(j, "http_error: ") /\ results[j].ip = Str(ips[t])
                /\ fate[t] = "unexpected" =>
                    ErrorAt(j, "exception: ") /\ results[j].ip = Str(ips[t])
                /\ fate[t] = "fetched" =>
                    /\ future[t].kind = "return"
                    /\ DOMAIN results[j] = DOMAIN future[t].value
                    /\ results[j].ip = future[t].value.ip

\* A finished batch in which a task raised and, after its future had been
\* collected, the future of a task that fetched its page was collected too.
SiblingCollectedAfterFailure ==
    /\ pc = "done"
    /\ \E j \in 1..Len(order), k \in 1..Len(order) :
        /\ j < k
        /\ fate[order[j]] = "unexpected"
        /\ fate[order[k]] = "fetched"
        /\ "_raw_parsed" \in DOMAIN results[k]

\* C3: at most threads tasks are inside their network call at once; a task
\* is in a worker's hands exactly from its network call to its end, and
\* until then it is in the queue.
NetworkCallsBounded ==
    /\ Cardinality({t \in Tasks : phase[t] = "net"}) <= threads
    /\ \A t \in Tasks :
        /\ phase[t] \in {"net", "extract"} <=> \E w \in Workers : running[w] = t
        /\ phase[t] = "queued" <=> \E j \in 1..Len(queue) : queue[j] = t

\* Two workers are both inside a network call and a third task waits.
PoolFullTaskQueued ==
    /\ threads = 2
    /\ Cardinality({t \in Tasks : phase[t] = "net"}) = 2
    /\ queue # <<>>

\* C4: every result CheckIP returns has an ip that is a non-empty string.
ResultIpNonEmpty ==
    xpc = "done" =>
        /\ out.kind = "return"
        /\ "ip" \in DOMAIN out.value
        /\ out.value.ip.t = "str"
        /\ out.value.ip.v # <<>>

\* C5: the extraction part of CheckIP never raises and always ends: the
\* scan loop stops at the close brace that brings the depth to zero or at
\* the end of the text, and CheckIP returns a result with an ip.
ExtractorNeverRaises ==
    /\ [](xpc = "done" => out.kind = "return" /\ "ip" \in DOMAIN out.value)
    /\ [](xpc \in {"extracted", "parsed", "done"} /\ start # -1 =>
            \/ scan.end = -1 /\ scan.i = Len(text)
            \/ scan.end = scan.i + 1 /\ scan.depth = 0 /\ At(text, scan.i) = "}")
    /\ <>(xpc = "done")

\* CheckIP has returned an error result for a page whose block was scanned
\* to its close brace.
ReturnedAfterScan ==
    /\ xpc = "done"
    /\ out.kind = "return"
    /\ scan.end # -1
    /\ "error" \in DOMAIN out.value

\* The search origin and the balanced block, stated on the text alone: the
\* brace depth of text[a..j] is its count of '{' less its count of '}'.
BraceDepth(page, a, j) ==
    Cardinality({k \in a..j : At(page, k) = "{"})
        - Cardinality({k \in a..j : At(page, k) = "}"})

SearchOrigin(page) ==
    IF \E p \in 0..Len(page) : StartsAt(page, Marker, p)
    THEN CHOOSE p \in 0..Len(page) :
            /\ StartsAt(page, Marker, p)
            /\ \A q \in 0..(p - 1) : ~StartsAt(page, Marker, q)
    ELSE 0

\* The index of the first '{' at or after the search origin, or -1.
FirstBrace(page) ==
    LET braces == {p \in SearchOrigin(page)..(Len(page) - 1) : At(page, p) = "{"}
    IN  IF braces = {} THEN -1
        ELSE CHOOSE p \in braces : \A q \in braces : p <= q

\* The index after the first position, from the first brace on, where the
\* depth is zero again; -1 when there is no brace or no such position.
BalancedEnd(page) ==
    LET first == FirstBrace(page)
        ends == {e \in (first + 1)..Len(page) : BraceDepth(page, first, e - 1) = 0}
    IN  IF first = -1 \/ ends = {} THEN -1
        ELSE CHOOSE e \in ends : \A f \in ends : e <= f

\* The two parse attempts of a block.
ParsesStrict(block) == JsonLoads(block).ok
ParsesTolerant(block) == JsonLoads(SingleToDouble(block)).ok
ParsedObject(block) ==
    IF ParsesStrict(block) THEN JsonLoads(block).val
    ELSE JsonLoads(SingleToDouble(block)).val

\* C6: for a page that is the anchor phrase followed by a valid JSON object
\* with string fields ip, score and risk, the result has exactly those
\* values as ip, score and risk, and no error.
RoundTripReproducesFields ==
    (xpc = "done" /\ text \in RoundTripPages) =>
        \A sep \in {<<>>, <<":", NL>>}, a \in FieldValues, b \in FieldValues,
           c \in FieldValues :
            text = Marker \o sep \o ObjectText(a, b, c) =>
                /\ out.kind = "return"
                /\ "error" \notin DOMAIN out.value
                /\ {"ip", "score", "risk"} \subseteq DOMAIN out.value
                /\ out.value.ip = Str(a)
                /\ out.value.score = Str(b)
                /\ out.value.risk = Str(c)

\* C7: the error is 'json_parse_failed' exactly when a balanced block was
\* extracted and both parse attempts fail on it; when either succeeds,
\* whatever object it yields, the result has no error, the object's ip (else
\* the queried ip), its score, risk and allow-listed fields, and the whole
\* object as rawPayload.
ParseFailedOnlyWhenBothParsesFail ==
    xpc = "done" =>
        LET found == BalancedEnd(text) # -1
            block == json_block.block
            parses == ParsesStrict(block) \/ ParsesTolerant(block)
            obj == ParsedObject(block)
        IN  /\ out.kind = "return"
            /\ ("error" \in DOMAIN out.value
                    /\ out.value.error = Str(<<"json_parse_failed">>))
                <=> (found /\ ~parses)
            /\ (found /\ parses) =>
                /\ "error" \notin DOMAIN out.value
                /\ "_raw_parsed" \in DOMAIN out.value
                /\ out.value["_raw_parsed"] = obj
                /\ obj.t = "obj"
                /\ out.value.ip =
                       IF KeyIp \in DOMAIN obj.v THEN obj.v[KeyIp] ELSE Str(qip)
                /\ "score" \in DOMAIN out.value <=> KeyScore \in DOMAIN obj.v
                /\ "risk" \in DOMAIN out.value <=> KeyRisk \in DOMAIN obj.v
                /\ \A j \in 1..Len(AllowList) :
                       IF AllowList[j].key \in DOMAIN obj.v
                       THEN /\ AllowList[j].name \in DOMAIN out.value
                            /\ out.value[AllowList[j].name] = obj.v[AllowList[j].key]
                       ELSE AllowList[j].name \notin DOMAIN out.value

\* The matches of the pattern "key" \s* : \s* "value" in the text, value
\* being one or more characters other than '"': each as <<p, value>>, p
\* the index where the quoted key starts.
FieldMatches(page, key) ==
    LET quoted == <<Q>> \o key \o <<Q>>
        n == Len(page)
        Gap(a, b) == \A k \in a..(b - 1) : At(page, k) \in WsChars
        Keys == {p \in 0..(n - 1) : StartsAt(page, quoted, p)}
        Colons(p) == {c \in (p + Len(quoted))..(n - 1) :
                         At(page, c) = ":" /\ Gap(p + Len(quoted), c)}
        Opens(c) == {o \in (c + 1)..(n - 1) : At(page, o) = Q /\ Gap(c + 1, o)}
        Closes(o) == {b \in (o + 2)..(n - 1) :
                         /\ At(page, b) = Q
                         /\ \A k \in (o + 1)..(b - 1) : At(page, k) # Q}
    IN  UNION { UNION { UNION { { <<p, Slice(page, o + 1, b)>> : b \in Closes(o) }
                                : o \in Opens(c) }
                        : c \in Colons(p) }
                : p \in Keys }

\* group(1) of the leftmost of the matches.
LeftmostValue(matches) ==
    (CHOOSE m \in matches : \A m2 \in matches : m[1] <= m2[1])[2]

\* C8: when no balanced block can be extracted, the key/value patterns for
\* ip, score and risk over the whole text decide the result: with a match,
\* exactly the matched fields (ip the matched one, else the queried one)
\* and no error; with none, the queried ip and 'no_json_block_found'.
FallbackDecidedByFieldPatterns ==
    (xpc = "done" /\ BalancedEnd(text) = -1) =>
        LET m_ip == FieldMatches(text, KeyIp)
            m_score == FieldMatches(text, KeyScore)
            m_risk == FieldMatches(text, KeyRisk)
        IN  /\ out.kind = "return"
            /\ IF m_ip = {} /\ m_score = {} /\ m_risk = {}
               THEN /\ DOMAIN out.value = {"ip", "error"}
                    /\ out.value.ip = Str(qip)
                    /\ out.value.error = Str(<<"no_json_block_found">>)
               ELSE /\ DOMAIN out.value =
                         {"ip"} \cup (IF m_score = {} THEN {} ELSE {"score"})
                                \cup (IF m_risk = {} THEN {} ELSE {"risk"})
                    /\ out.value.ip =
                         IF m_ip = {} THEN Str(qip) ELSE Str(LeftmostValue(m_ip))
                    /\ m_score # {} => out.value.score = Str(LeftmostValue(m_score))
                    /\ m_risk # {} => out.value.risk = Str(LeftmostValue(m_risk))

\* The text has an open brace whose depth never returns to zero, the ip and
\* risk patterns match, and the result is the two matched fields.
ScrapedBesideOpenBrace ==
    /\ xpc = "done"
    /\ FirstBrace(text) # -1
    /\ BalancedEnd(text) = -1
    /\ out.kind = "return"
    /\ DOMAIN out.value = {"ip", "risk"}
    /\ out.value.ip # Str(qip)

\* C9: the tiers are strictly ordered.  With a balanced block the result is
\* never a scrape of the text; when the block parses under neither attempt,
\* the result is exactly the queried ip, 'json_parse_failed' and the first
\* 200 characters of the sanitized candidate, whatever the patterns match.
UnparseableBlockGetsNoScrape ==
    (xpc = "done" /\ BalancedEnd(text) # -1) =>
        LET block == json_block.block IN
        /\ out.kind = "return"
        /\ json_block.found
        /\ "error" \in DOMAIN out.value \/ "_raw_parsed" \in DOMAIN out.value
        /\ (~ParsesStrict(block) /\ ~ParsesTolerant(block)) =>
            /\ DOMAIN out.value = {"ip", "error", "raw"}
            /\ out.value.ip = Str(qip)
            /\ out.value.error = Str(<<"json_parse_failed">>)
            /\ out.value.raw =
                 Str(SubSeq(block, 1, IF Len(block) < 200 THEN Len(block) ELSE 200))

\* A block of more than 200 characters that does not parse, in a text where
\* the ip pattern matches.
LongUnparseableBlockWithFields ==
    /\ xpc = "done"
    /\ json_block.found
    /\ Len(json_block.block) > 200
    /\ ~ParsesStrict(json_block.block) /\ ~ParsesTolerant(json_block.block)
    /\ FieldMatches(text, KeyIp) # {}
    /\ "score" \notin DOMAIN out.value

\* C10: the block starts at the first '{' at or after the anchor (or the
\* start of the text) and ends at the first position where the brace depth
\* is zero again, so nested braces stay inside it; the loop run as a whole
\* ends where the loop run step by step does.
BlockEndsWhereDepthReturnsToZero ==
    xpc \in {"extracted", "parsed", "done"} =>
        /\ start = FirstBrace(text)
        /\ scan.end = BalancedEnd(text)
        /\ json_block.found <=> BalancedEnd(text) # -1
        /\ start # -1 => ScanEnd(text, start) = scan.end

\* A block with an inner '}' before its own close brace was extracted and
\* parsed whole.
NestedBlockExtractedWhole ==
    /\ xpc = "done"
    /\ scan.end # -1
    /\ \E j \in (start + 1)..(scan.end - 2) : At(text, j) = "}"
    /\ out.kind = "return"
    /\ "_raw_parsed" \in DOMAIN out.value

====
